---- MODULE Spec2Model ----
(***************************************************************************)
(* A model of text_toolkit.py: word_frequency, unique_words,               *)
(* word_co_occurrence_matrix and the generator text_generator.             *)
(*                                                                         *)
(* A Python str is the sequence of its code points, a word is such a       *)
(* sequence too, a dict is a function whose domain is its key set, a       *)
(* tuple and a list are sequences.  The file system is reduced to the one  *)
(* path the input names: the kind of entry found there (fs), the text a    *)
(* file there holds (content), and the read failure the environment        *)
(* injects while that file is opened and read (failAt, failKind).          *)
(***************************************************************************)
EXTENDS Integers, Sequences, FiniteSets, TLC

VARIABLES
    text_or_file,      \* the primary input: [type |-> "str" | "int", val |-> characters]
    filter_func,       \* word_frequency's filter_func: "None" or the name of a predicate
    window,            \* word_co_occurrence_matrix's window
    fs,                \* entry at the path text_or_file names: "none" | "file" | "dir"
    content,           \* characters of the file at that path (when it is a file)
    failAt,            \* -1: reads succeed; 0: open() fails; k>0: reading row k fails
    failKind,          \* exception class of the injected failure
    outcome,           \* per operation: "none" (not called) | "returned" | exception raised
    dispatch,          \* per operation: branch taken, "none" | "file" | "text"
    fsAtCall,          \* per operation: fs at the moment of the call ("nocall" before)
    freq_words,        \* dict returned by word_frequency
    unique_words_txt,  \* set returned by unique_words
    co_words_list,     \* list returned by word_co_occurrence_matrix
    gen,               \* generator object: "none" | "created" | "suspended" | "done"
    items,             \* rows of the open file, or segments of the cleaned text
    yielded,           \* values the consumer has received, in order
    handle,            \* file object of the generator: "unopened" | "open" | "closed"
    diag,              \* lines printed on stdout by text_generator
    last_pull,         \* result of the latest next(): "none" | "value" | "StopIteration" | exception
    fsAtProbe          \* fs when text_generator evaluated os.path.isfile ("noprobe" before)

vars == <<text_or_file, filter_func, window, fs, content, failAt, failKind,
          outcome, dispatch, fsAtCall, freq_words, unique_words_txt,
          co_words_list, gen, items, yielded, handle, diag, last_pull, fsAtProbe>>

inputs == <<text_or_file, filter_func, window, content, failAt, failKind>>
genvars == <<gen, items, yielded, handle, diag, last_pull, fsAtProbe>>

----------------------------------------------------------------------------
(* Bounds of the checked instances.                                        *)

MaxLen == 5       \* longest input text in the word_frequency/unique_words instance
MaxLenCo == 7     \* longest input text in the co-occurrence instance
MaxLenGen == 4    \* longest input text in the generator instance
MaxLenAll == 1    \* longest input text in the instance with all four operations

----------------------------------------------------------------------------
(* Characters.  A character is its code point, ord(c): every character of  *)
(* a Python str has a value here.                                          *)

LF == 10      \* '\n'
CR == 13      \* '\r'

Upper == 65..90       \* A-Z
Lower == 97..122      \* a-z
Digits == 48..57      \* 0-9
Alnum == Upper \cup Lower \cup Digits

\* \s of re on a str pattern, and the separators of str.split(): the
\* characters c with c.isspace().  \t \n \v \f \r, 0x1C-0x1F, space, U+0085,
\* U+00A0, U+1680, U+2000-U+200A, U+2028, U+2029, U+202F, U+205F, U+3000
Whitespace ==
    (9..13) \cup (28..32) \cup {133, 160, 5760} \cup (8192..8202)
    \cup {8232, 8233, 8239, 8287, 12288}

\* str.lower() on one character that re.sub has left: an ASCII letter or
\* digit, or a whitespace character
lower_char(c) == IF c \in Upper THEN c + 32 ELSE c

\* str.lower(), applied in the code to the result of re.sub only
lower(data) == [i \in 1..Len(data) |-> lower_char(data[i])]

\* re.sub(r'[^A-Za-z0-9\s]', '', data): delete what is neither alphanumeric nor whitespace
RECURSIVE re_sub(_)
re_sub(data) ==
    IF data = <<>> THEN <<>>
    ELSE IF Head(data) \in Alnum \cup Whitespace
         THEN <<Head(data)>> \o re_sub(Tail(data))
         ELSE re_sub(Tail(data))

\* str.split(): the maximal runs of non-whitespace characters, in order
RECURSIVE split_from(_, _)
split_from(s, cur) ==
    IF s = <<>> THEN (IF cur = <<>> THEN <<>> ELSE <<cur>>)
    ELSE IF Head(s) \in Whitespace
         THEN (IF cur = <<>> THEN <<>> ELSE <<cur>>) \o split_from(Tail(s), <<>>)
         ELSE split_from(Tail(s), Append(cur, Head(s)))
split(s) == split_from(s, <<>>)

\* str.split('\n'): the segments between newline characters, empty ones kept
RECURSIVE split_sep_from(_, _)
split_sep_from(s, cur) ==
    IF s = <<>> THEN <<cur>>
    ELSE IF Head(s) = LF
         THEN <<cur>> \o split_sep_from(Tail(s), <<>>)
         ELSE split_sep_from(Tail(s), Append(cur, Head(s)))
split_newline(s) == split_sep_from(s, <<>>)

\* "for row in file" on a file opened with open(path, 'r'): the lines of the
\* file, each with its line terminator.  Text mode reads with universal
\* newlines: "\n", "\r\n" and a lone "\r" each end a line, and each reaches
\* the loop as "\n"
RECURSIVE rows_from(_, _)
rows_from(s, cur) ==
    IF s = <<>> THEN (IF cur = <<>> THEN <<>> ELSE <<cur>>)
    ELSE IF Head(s) = LF
         THEN <<Append(cur, LF)>> \o rows_from(Tail(s), <<>>)
    ELSE IF Head(s) = CR
         THEN <<Append(cur, LF)>>
              \o rows_from(IF Tail(s) # <<>> /\ Head(Tail(s)) = LF
                           THEN Tail(Tail(s)) ELSE Tail(s), <<>>)
         ELSE rows_from(Tail(s), Append(cur, Head(s)))
file_rows(s) == rows_from(s, <<>>)

\* seq[lo:hi] of Python, negative indices counted from the end
slice(s, lo, hi) ==
    LET n == Len(s)
        norm(x) == IF x < 0 THEN (IF x + n < 0 THEN 0 ELSE x + n)
                   ELSE (IF x > n THEN n ELSE x)
        l == norm(lo)
        h == norm(hi)
    IN IF l >= h THEN <<>> ELSE SubSeq(s, l + 1, h)

\* isinstance(text_or_file, str)
isinstance_str(x) == x.type = "str"

\* os.path.isfile(text_or_file), given the kind of entry at that path
isfile_exists(kind) == kind # "none"
isfile(kind) == kind = "file"

\* the read of the file fails: at open() (failAt = 0) or at one of its rows
read_fails(rows) == failAt >= 0 /\ failAt <= Len(rows)

----------------------------------------------------------------------------
(* word_frequency                                                          *)

Ops == {"word_frequency", "unique_words", "word_co_occurrence_matrix", "text_generator"}

\* the predicates passed as filter_func; "None" is the default, filter(None, ...);
\* "len_gt_1" is lambda w: len(w) > 1, "is_a" is lambda w: w == "a"
FilterFuncs == {"None", "len_gt_1", "is_a"}

\* filter_func(word), and the truthiness test filter() applies when it is None
passes(ff, w) ==
    CASE ff = "None"     -> w # <<>>
      [] ff = "len_gt_1" -> Len(w) > 1
      [] ff = "is_a"     -> w = <<97>>

EmptyDict == [w \in {} |-> 0]

\* freq_words[data] += 1, or = 1 for a new key
incr_overwrite(freq, w) == freq @@ (w :> 1)
incr(freq, w) ==
    IF w \in DOMAIN freq THEN [freq EXCEPT ![w] = @ + 1] ELSE freq @@ (w :> 1)

\* the loop "for data in string_cleaned"
RECURSIVE count_words(_, _)
count_words(freq, ws) ==
    IF ws = <<>> THEN freq ELSE count_words(incr(freq, Head(ws)), Tail(ws))

\* count_word_frequency(data, filter_func), on the accumulating freq_words
count_word_frequency_rawfilter(freq, data, ff) ==
    LET raw == SelectSeq(split(data), LAMBDA w : passes(ff, w))
        cleaned == [i \in 1..Len(raw) |-> lower(re_sub(raw[i]))]
    IN count_words(freq, SelectSeq(cleaned, LAMBDA w : w # <<>>))
count_word_frequency(freq, data, ff) ==
    LET string_cleaned == split(lower(re_sub(data)))
        kept == SelectSeq(string_cleaned, LAMBDA w : passes(ff, w))
    IN count_words(freq, kept)

\* "for row in file: count_word_frequency(row, filter_func)"
RECURSIVE word_frequency_rows(_, _, _)
word_frequency_rows(freq, rows, ff) ==
    IF rows = <<>> THEN freq
    ELSE word_frequency_rows(count_word_frequency(freq, Head(rows), ff), Tail(rows), ff)

Call_word_frequency ==
    /\ outcome["word_frequency"] = "none"
    /\ fsAtCall' = [fsAtCall EXCEPT !["word_frequency"] = fs]
    /\ IF ~isinstance_str(text_or_file)
       THEN /\ outcome' = [outcome EXCEPT !["word_frequency"] = "TypeError"]
            /\ UNCHANGED <<dispatch, freq_words>>
       ELSE IF isfile(fs)
       THEN /\ dispatch' = [dispatch EXCEPT !["word_frequency"] = "file"]
            /\ IF read_fails(file_rows(content))
               THEN \* no try around the open and the loop: the error leaves the call as it is
                    /\ outcome' = [outcome EXCEPT !["word_frequency"] = failKind]
                    /\ UNCHANGED freq_words
               ELSE /\ outcome' = [outcome EXCEPT !["word_frequency"] = "returned"]
                    /\ freq_words' = word_frequency_rows(EmptyDict, file_rows(content), filter_func)
       ELSE /\ dispatch' = [dispatch EXCEPT !["word_frequency"] = "text"]
            /\ outcome' = [outcome EXCEPT !["word_frequency"] = "returned"]
            /\ freq_words' = count_word_frequency(EmptyDict, text_or_file.val, filter_func)
    /\ UNCHANGED <<inputs, fs, unique_words_txt, co_words_list, genvars>>

----------------------------------------------------------------------------
(* unique_words                                                            *)

\* count_unique_words(data), on the accumulating unique_words_txt
count_unique_words_nolower(acc, data) ==
    LET ws == split(re_sub(data)) IN acc \cup {ws[i] : i \in 1..Len(ws)}
count_unique_words(acc, data) ==
    LET ws == split(lower(re_sub(data)))
        curr_unique_words == {ws[i] : i \in 1..Len(ws)}
    IN acc \cup curr_unique_words

\* "for row in file: count_unique_words(row)"
RECURSIVE unique_words_rows(_, _)
unique_words_rows(acc, rows) ==
    IF rows = <<>> THEN acc
    ELSE unique_words_rows(count_unique_words(acc, Head(rows)), Tail(rows))

\* "except IOError as e: raise IOError(...)": an OSError leaves as the new IOError,
\* anything else (a UnicodeDecodeError is a ValueError) leaves as it is
reraised(kind) == IF kind = "OSError" THEN "IOError" ELSE kind

Call_unique_words ==
    /\ outcome["unique_words"] = "none"
    /\ fsAtCall' = [fsAtCall EXCEPT !["unique_words"] = fs]
    /\ IF ~isinstance_str(text_or_file)
       THEN /\ outcome' = [outcome EXCEPT !["unique_words"] = "TypeError"]
            /\ UNCHANGED <<dispatch, unique_words_txt>>
       ELSE IF isfile(fs)
       THEN /\ dispatch' = [dispatch EXCEPT !["unique_words"] = "file"]
            /\ IF read_fails(file_rows(content))
               THEN /\ outcome' = [outcome EXCEPT !["unique_words"] = reraised(failKind)]
                    /\ UNCHANGED unique_words_txt
               ELSE /\ outcome' = [outcome EXCEPT !["unique_words"] = "returned"]
                    /\ unique_words_txt' = unique_words_rows({}, file_rows(content))
       ELSE /\ dispatch' = [dispatch EXCEPT !["unique_words"] = "text"]
            /\ outcome' = [outcome EXCEPT !["unique_words"] = "returned"]
            /\ unique_words_txt' = count_unique_words({}, text_or_file.val)
    /\ UNCHANGED <<inputs, fs, freq_words, co_words_list, genvars>>

----------------------------------------------------------------------------
(* word_co_occurrence_matrix                                               *)

\* process_co_occurance(data, window), on the accumulating co_words_list:
\* for index in range(len(string_cleaned) - window): append the slice
process_co_occurance(acc, data, win) ==
    LET string_cleaned == split(lower(re_sub(data)))
        n == Len(string_cleaned) - win
    IN acc \o [i \in 1..n |-> slice(string_cleaned, i - 1, i - 1 + win)]

RECURSIVE concat(_)
concat(ss) == IF ss = <<>> THEN <<>> ELSE Head(ss) \o concat(Tail(ss))

\* "for row in file: process_co_occurance(row, window)"
co_occurrence_joined(acc, rows, win) == process_co_occurance(acc, concat(rows), win)
RECURSIVE co_occurrence_rows(_, _, _)
co_occurrence_rows(acc, rows, win) ==
    IF rows = <<>> THEN acc
    ELSE co_occurrence_rows(process_co_occurance(acc, Head(rows), win), Tail(rows), win)

Call_word_co_occurrence_matrix ==
    /\ outcome["word_co_occurrence_matrix"] = "none"
    /\ fsAtCall' = [fsAtCall EXCEPT !["word_co_occurrence_matrix"] = fs]
    /\ IF ~isinstance_str(text_or_file)
       THEN /\ outcome' = [outcome EXCEPT !["word_co_occurrence_matrix"] = "TypeError"]
            /\ UNCHANGED <<dispatch, co_words_list>>
       ELSE IF isfile(fs)
       THEN /\ dispatch' = [dispatch EXCEPT !["word_co_occurrence_matrix"] = "file"]
            /\ IF read_fails(file_rows(content))
               THEN /\ outcome' = [outcome EXCEPT
                                     !["word_co_occurrence_matrix"] = reraised(failKind)]
                    /\ UNCHANGED co_words_list
               ELSE /\ outcome' = [outcome EXCEPT !["word_co_occurrence_matrix"] = "returned"]
                    /\ co_words_list' = co_occurrence_rows(<<>>, file_rows(content), window)
       ELSE /\ dispatch' = [dispatch EXCEPT !["word_co_occurrence_matrix"] = "text"]
            /\ outcome' = [outcome EXCEPT !["word_co_occurrence_matrix"] = "returned"]
            /\ co_words_list' = process_co_occurance(<<>>, text_or_file.val, window)
    /\ UNCHANGED <<inputs, fs, freq_words, unique_words_txt, genvars>>

----------------------------------------------------------------------------
(* text_generator: a generator function.  The call builds the generator    *)
(* object and runs none of the body; the body runs, from its first line,   *)
(* at the first next().                                                    *)

\* "except IOError as e": the exception classes the handler catches
caught_any(kind) == TRUE
caught(kind) == kind = "OSError"

\* leaving the block "with open(text_or_file, 'r') as file" closes the file
with_exit_leak(h) == h
with_exit(h) == "closed"

\* the literal-text branch: re.sub(...).lower().split('\n')
text_segments_words(val) == split(lower(re_sub(val)))
text_segments(val) == split_newline(lower(re_sub(val)))

Call_text_generator ==
    /\ outcome["text_generator"] = "none"
    /\ fsAtCall' = [fsAtCall EXCEPT !["text_generator"] = fs]
    /\ outcome' = [outcome EXCEPT !["text_generator"] = "returned"]
    /\ gen' = "created"
    /\ UNCHANGED <<inputs, fs, dispatch, freq_words, unique_words_txt, co_words_list,
                   items, yielded, handle, diag, last_pull, fsAtProbe>>

\* an exception of class kind is raised inside the try block; h is the handle
\* as the with block leaves it ("unopened" when open() itself failed)
GenFails(kind, h) ==
    /\ gen' = "done"
    /\ handle' = h
    /\ IF caught(kind)
       THEN /\ diag' = Append(diag, "Error reading file")
            /\ last_pull' = "StopIteration"
       ELSE /\ diag' = diag
            /\ last_pull' = kind
    /\ UNCHANGED yielded

\* the for loop over the open file asks for row k of rows
GenReadRow(rows, k) ==
    IF k > Len(rows)
    THEN /\ gen' = "done"
         /\ handle' = with_exit("open")
         /\ last_pull' = "StopIteration"
         /\ UNCHANGED <<yielded, diag>>
    ELSE IF failAt = k
    THEN GenFails(failKind, with_exit("open"))
    ELSE /\ gen' = "suspended"
         /\ handle' = "open"
         /\ yielded' = Append(yielded, rows[k])
         /\ last_pull' = "value"
         /\ UNCHANGED diag

\* the for loop over string_cleaned asks for segment k
GenNextSegment(segs, k) ==
    /\ IF k > Len(segs)
       THEN /\ gen' = "done"
            /\ last_pull' = "StopIteration"
            /\ UNCHANGED yielded
       ELSE /\ gen' = "suspended"
            /\ yielded' = Append(yielded, segs[k])
            /\ last_pull' = "value"
    /\ UNCHANGED <<handle, diag>>

\* next(generator)
Pull ==
    /\ gen \in {"created", "suspended", "done"}
    /\ IF gen = "created"
       THEN IF ~isinstance_str(text_or_file)
            THEN /\ gen' = "done"
                 /\ last_pull' = "TypeError"
                 /\ UNCHANGED <<dispatch, items, yielded, handle, diag, fsAtProbe>>
            ELSE /\ fsAtProbe' = fs
                 /\ IF isfile(fs)
                    THEN /\ dispatch' = [dispatch EXCEPT !["text_generator"] = "file"]
                         /\ items' = file_rows(content)
                         /\ IF failAt = 0
                            THEN GenFails("OSError", "unopened")
                            ELSE GenReadRow(file_rows(content), 1)
                    ELSE /\ dispatch' = [dispatch EXCEPT !["text_generator"] = "text"]
                         /\ items' = text_segments(text_or_file.val)
                         /\ GenNextSegment(text_segments(text_or_file.val), 1)
       ELSE IF gen = "suspended"
       THEN /\ IF dispatch["text_generator"] = "file"
               THEN GenReadRow(items, Len(yielded) + 1)
               ELSE GenNextSegment(items, Len(yielded) + 1)
            /\ UNCHANGED <<dispatch, items, fsAtProbe>>
       ELSE /\ last_pull' = "StopIteration"
            /\ UNCHANGED <<dispatch, gen, items, yielded, handle, diag, fsAtProbe>>
    /\ UNCHANGED <<inputs, fs, outcome, fsAtCall, freq_words, unique_words_txt, co_words_list>>

\* generator.close(), also run when an abandoned generator is finalized:
\* GeneratorExit is raised at the yield the generator is suspended at
Close ==
    /\ gen \in {"created", "suspended"}
    /\ gen' = "done"
    /\ handle' = IF handle = "open" THEN with_exit(handle) ELSE handle
    /\ UNCHANGED <<inputs, fs, outcome, dispatch, fsAtCall, freq_words, unique_words_txt,
                   co_words_list, items, yielded, diag, last_pull, fsAtProbe>>

\* the environment creates, removes or replaces the entry at the path
FsChange ==
    /\ fs' \in {"none", "file", "dir"} \ {fs}
    /\ UNCHANGED <<inputs, outcome, dispatch, fsAtCall, freq_words, unique_words_txt,
                   co_words_list, genvars>>

----------------------------------------------------------------------------
(* Instances.                                                              *)

\* every text of at most n characters drawn from chars
Texts(chars, n) == UNION {[1..k -> chars] : k \in 0..n}

Str(val) == [type |-> "str", val |-> val]
NotStr == [type |-> "int", val |-> <<>>]

\* the path used when the input names a file
PathName == <<102>>

NoCalls ==
    /\ outcome = [o \in Ops |-> "none"]
    /\ dispatch = [o \in Ops |-> "none"]
    /\ fsAtCall = [o \in Ops |-> "nocall"]
    /\ freq_words = EmptyDict
    /\ unique_words_txt = {}
    /\ co_words_list = <<>>
    /\ gen = "none"
    /\ items = <<>>
    /\ yielded = <<>>
    /\ handle = "unopened"
    /\ diag = <<>>
    /\ last_pull = "none"
    /\ fsAtProbe = "noprobe"

\* the input is a literal text, or the path of a file holding that text
SourceIs(src) ==
    \/ /\ fs \in {"none", "dir"}
       /\ text_or_file = Str(src)
       /\ content = <<>>
    \/ /\ fs = "file"
       /\ text_or_file = Str(PathName)
       /\ content = src

NoFailure == failAt = -1 /\ failKind = "OSError"

\* an injected failure: open() fails with an OSError, or reading a row fails
\* with an OSError or with a UnicodeDecodeError
SomeFailure ==
    /\ failAt \in -1 .. Len(file_rows(content))
    /\ failKind \in {"OSError", "UnicodeDecodeError"}
    /\ failAt < 1 => failKind = "OSError"

CharsWF == {97, 66, 39, 32, LF, 160}     \* a B ' space \n U+00A0
CharsCo == {65, 32, LF, CR}              \* A space \n \r
CharsGen == {66, 39, 32, LF, CR}         \* B ' space \n \r
CharsAll == {65, LF, CR, 160}            \* A \n \r U+00A0
Windows == -1 .. 2

\* word_frequency and unique_words
InitWF ==
    /\ \E src \in Texts(CharsWF, MaxLen) : SourceIs(src)
    /\ filter_func \in FilterFuncs
    /\ window = 2
    /\ NoFailure
    /\ NoCalls
NextWF == Call_word_frequency \/ Call_unique_words
SpecWF == InitWF /\ [][NextWF]_vars

\* word_co_occurrence_matrix
InitCo ==
    /\ \E src \in Texts(CharsCo, MaxLenCo) : SourceIs(src)
    /\ fs \in {"none", "file"}
    /\ filter_func = "None"
    /\ window \in Windows
    /\ NoFailure
    /\ NoCalls
NextCo == Call_word_co_occurrence_matrix
SpecCo == InitCo /\ [][NextCo]_vars

\* text_generator and its consumer
InitGen ==
    /\ \E src \in Texts(CharsGen, MaxLenGen) : SourceIs(src)
    /\ filter_func = "None"
    /\ window = 2
    /\ SomeFailure
    /\ NoCalls
NextGen == Call_text_generator \/ Pull \/ Close
SpecGen == InitGen /\ [][NextGen]_vars
\* the consumer exhausts or abandons the sequence
FairSpecGen == SpecGen /\ WF_vars(Pull \/ Close)

\* all four operations, on string and non-string inputs
Init ==
    /\ \/ \E src \in Texts(CharsAll, MaxLenAll) : SourceIs(src)
       \/ /\ text_or_file = NotStr
          /\ fs \in {"none", "file", "dir"}
          /\ content = <<>>
    /\ filter_func = "None"
    /\ window = 1
    /\ SomeFailure
    /\ NoCalls
Next ==
    \/ Call_word_frequency
    \/ Call_unique_words
    \/ Call_word_co_occurrence_matrix
    \/ Call_text_generator
    \/ Pull
    \/ Close
    \/ FsChange
Spec == Init /\ [][Next]_vars

----------------------------------------------------------------------------
(* What the claims speak of, stated without the operators of the model.     *)

WF == "word_frequency"
UW == "unique_words"
CO == "word_co_occurrence_matrix"
TG == "text_generator"

\* the text after deletion of the other characters and lowercasing
Normalized(s) == lower(SelectSeq(s, LAMBDA c : c \in Alnum \cup Whitespace))

\* the places <<i, j>> of the whitespace-separated tokens of s
TokenSpans(s) ==
    {sp \in (1..Len(s)) \X (1..Len(s)) :
        /\ sp[1] <= sp[2]
        /\ \A k \in sp[1]..sp[2] : s[k] \notin Whitespace
        /\ sp[1] = 1 \/ s[sp[1] - 1] \in Whitespace
        /\ sp[2] = Len(s) \/ s[sp[2] + 1] \in Whitespace}

Tokens(s) == {SubSeq(s, sp[1], sp[2]) : sp \in TokenSpans(s)}
Occurrences(s, w) == Cardinality({sp \in TokenSpans(s) : SubSeq(s, sp[1], sp[2]) = w})

RECURSIVE SumValues(_)
SumValues(f) ==
    IF DOMAIN f = {} THEN 0
    ELSE LET k == CHOOSE x \in DOMAIN f : TRUE
         IN f[k] + SumValues([x \in DOMAIN f \ {k} |-> f[x]])

\* the characters word_frequency read: the file's, or the literal text's
SourceText(op) == IF dispatch[op] = "file" THEN content ELSE text_or_file.val

\* the words of one chunk
WordsOf(data) == split(lower(re_sub(data)))

\* the newline-free segments of s, by the places of its newline characters
NewlinePlaces(s) == {i \in 1..Len(s) : s[i] = LF}
Segments(s) ==
    LET P == NewlinePlaces(s)
        m == Cardinality(P)
        place(k) == IF k = 0 THEN 0
                    ELSE IF k = m + 1 THEN Len(s) + 1
                    ELSE CHOOSE i \in P : Cardinality({j \in P : j < i}) = k - 1
    IN [k \in 1..(m + 1) |-> SubSeq(s, place(k - 1) + 1, place(k) - 1)]

IsPrefix(a, b) == Len(a) <= Len(b) /\ a = SubSeq(b, 1, Len(a))

----------------------------------------------------------------------------
(* C1 *)

\* C1: on a literal text of n words and a window k with 1 <= k <= n,
\* word_co_occurrence_matrix returns every run of k consecutive words in
\* start-index order, the run ending at the last word included.
C1_EveryRunIncludingLast ==
    (/\ outcome[CO] = "returned"
     /\ dispatch[CO] = "text"
     /\ window >= 1
     /\ window <= Len(WordsOf(text_or_file.val)))
    => LET w == WordsOf(text_or_file.val)
       IN co_words_list = [i \in 1..(Len(w) - window + 1) |-> SubSeq(w, i, i + window - 1)]

----------------------------------------------------------------------------
(* C2 *)

\* C2: with no filter, the values of the map word_frequency returns sum to the
\* number of whitespace-separated normalized tokens of the input (literal text,
\* or file read line by line), and every value is the number of occurrences of
\* its key.
C2_CountsAreExact ==
    (outcome[WF] = "returned" /\ filter_func = "None")
    => LET s == Normalized(SourceText(WF))
       IN /\ SumValues(freq_words) = Cardinality(TokenSpans(s))
          /\ \A w \in DOMAIN freq_words : freq_words[w] = Occurrences(s, w)

\* a file of two lines or more was counted and some word occurs on two of them
C2_Witness ==
    /\ outcome[WF] = "returned"
    /\ filter_func = "None"
    /\ dispatch[WF] = "file"
    /\ Len(file_rows(content)) >= 2
    /\ \E w \in DOMAIN freq_words :
          /\ freq_words[w] >= 2
          /\ \A r \in 1..Len(file_rows(content)) : Occurrences(Normalized(file_rows(content)[r]), w) <= 1

----------------------------------------------------------------------------
(* C3 *)

\* C3: on the same input and the same dispatch (literal text or existing
\* file), unique_words returns the key set of the map word_frequency returns
\* with no filter.
C3_UniqueWordsAreTheKeys ==
    (/\ outcome[WF] = "returned"
     /\ outcome[UW] = "returned"
     /\ filter_func = "None"
     /\ dispatch[WF] = dispatch[UW])
    => unique_words_txt = DOMAIN freq_words

\* both were called on a file holding an upper-case and a lower-case spelling
C3_Witness ==
    /\ outcome[WF] = "returned"
    /\ outcome[UW] = "returned"
    /\ filter_func = "None"
    /\ dispatch[WF] = "file"
    /\ dispatch[UW] = "file"
    /\ Cardinality(unique_words_txt) >= 2
    /\ \E i \in 1..Len(content) : content[i] \in Upper

----------------------------------------------------------------------------
(* C4 *)

\* C4: with a filter predicate, the map holds exactly the normalized words
\* the predicate accepts, each with its number of occurrences over all chunks
\* of the call, and no word the predicate rejects.
C4_FilterOnNormalizedWords ==
    (outcome[WF] = "returned" /\ filter_func # "None")
    => LET s == Normalized(SourceText(WF))
       IN /\ DOMAIN freq_words = {w \in Tokens(s) : passes(filter_func, w)}
          /\ \A w \in DOMAIN freq_words : freq_words[w] = Occurrences(s, w)

\* a file of two lines: an accepted word counted over both, another word rejected,
\* and a raw token that differs from its normalized word
C4_Witness ==
    /\ outcome[WF] = "returned"
    /\ filter_func # "None"
    /\ dispatch[WF] = "file"
    /\ Len(file_rows(content)) >= 2
    /\ \E w \in DOMAIN freq_words : freq_words[w] >= 2
    /\ Tokens(Normalized(content)) \ DOMAIN freq_words # {}
    /\ content # Normalized(content)

----------------------------------------------------------------------------
(* C5 *)

\* C5: each of the four operations, called on an input that is not a string,
\* raises TypeError from the call, returns no result object, and has not
\* probed or opened a file.
C5_NonStringRaisesAtTheCall ==
    \A op \in Ops :
        (~isinstance_str(text_or_file) /\ outcome[op] # "none")
        => /\ outcome[op] = "TypeError"
           /\ dispatch[op] = "none"
           /\ op = TG => (gen = "none" /\ fsAtProbe = "noprobe" /\ handle = "unopened")

----------------------------------------------------------------------------
(* C6 *)

\* C6 as stated: the input is processed as a file path exactly when an entry of
\* any kind exists at that path at the moment of the call.
C6_EntryAtCallTime ==
    \A op \in Ops :
        dispatch[op] # "none" => (dispatch[op] = "file" <=> fsAtCall[op] # "none")

\* the kind of entry found when the operation ran its probe: at the call for
\* the three eager operations, at the first next() for text_generator
ProbedKind(op) == IF op = TG THEN fsAtProbe ELSE fsAtCall[op]

\* C6 amended: the input is processed as a file path exactly when a regular
\* file is at that path at the moment the operation probes it, which is the
\* call for word_frequency, unique_words and word_co_occurrence_matrix, and
\* the first pull for text_generator; a directory is processed as text.
C6_RegularFileAtProbeTime ==
    \A op \in Ops :
        dispatch[op] # "none" => (dispatch[op] = "file" <=> ProbedKind(op) = "file")

\* a generator made when nothing was at the path reads the file that appeared
\* before its first pull, and an eager operation took a directory for text
C6_Witness ==
    /\ fsAtCall[TG] = "none"
    /\ fsAtProbe = "file"
    /\ dispatch[TG] = "file"
    /\ \E op \in Ops \ {TG} : fsAtCall[op] = "dir" /\ dispatch[op] = "text"

----------------------------------------------------------------------------
(* C7 *)

\* the next() about to be served hits the injected failure
ReadFailsNow ==
    \/ /\ gen = "created"
       /\ isinstance_str(text_or_file)
       /\ fs = "file"
       /\ failAt = 0 \/ (failAt = 1 /\ Len(file_rows(content)) >= 1)
    \/ /\ gen = "suspended"
       /\ dispatch[TG] = "file"
       /\ failAt = Len(yielded) + 1
       /\ failAt <= Len(file_rows(content))
FailureClass == IF failAt = 0 THEN "OSError" ELSE failKind
PullStep == last_pull' # last_pull
RowsBeforeFailure == SubSeq(file_rows(content), 1, IF failAt = 0 THEN 0 ELSE failAt - 1)

\* C7 as stated: whatever the read failure, no exception reaches the consumer:
\* the error is printed, the lines read before it have been yielded unmodified
\* in file order, and the sequence is exhausted.
C7_NoFailurePropagates ==
    [][/\ (ReadFailsNow /\ PullStep)
          => /\ last_pull' = "StopIteration"
             /\ diag' = Append(diag, "Error reading file")
             /\ gen' = "done"
             /\ yielded' = yielded
             /\ yielded = RowsBeforeFailure
       /\ gen = "done" => (gen' = "done" /\ yielded' = yielded)]_vars

\* C7 amended: a failure raised as an OSError (IOError), at open() or at a
\* later read, does not reach the consumer: it is printed and the sequence
\* ends; a failure of another class (a UnicodeDecodeError of the decoder)
\* reaches the consumer from that pull and nothing is printed.  Either way the
\* lines read before it have been yielded unmodified in file order, the file
\* is not left open, and the sequence yields nothing more.
C7_OnlyOSErrorIsSwallowed ==
    [][/\ (ReadFailsNow /\ PullStep)
          => /\ IF FailureClass = "OSError"
                THEN last_pull' = "StopIteration" /\ diag' = Append(diag, "Error reading file")
                ELSE last_pull' = FailureClass /\ diag' = diag
             /\ gen' = "done"
             /\ handle' # "open"
             /\ yielded' = yielded
             /\ yielded = RowsBeforeFailure
       /\ gen = "done" => (gen' = "done" /\ yielded' = yielded)]_vars

\* a decoding error reached the consumer after a first line had been yielded
C7_Witness ==
    /\ dispatch[TG] = "file"
    /\ last_pull = "UnicodeDecodeError"
    /\ Len(yielded) >= 1
    /\ gen = "done"

----------------------------------------------------------------------------
(* C8 *)

\* C8: the file handle of the iteration is never open before the first pull,
\* is not open once the sequence is finished (exhausted, ended by a read
\* error, or closed by a consumer that abandons it), and an open handle is
\* eventually released.
C8_HandleReleased ==
    /\ [](gen \in {"none", "created"} => handle = "unopened")
    /\ [](gen = "done" => handle # "open")
    /\ (handle = "open" ~> handle = "closed")

\* the consumer abandoned the sequence after one line of several, and the
\* handle is closed
C8_Witness ==
    /\ dispatch[TG] = "file"
    /\ gen = "done"
    /\ last_pull = "value"
    /\ Len(yielded) = 1
    /\ Len(items) >= 2
    /\ handle = "closed"

----------------------------------------------------------------------------
(* C9 *)

\* C9: on literal text, text_generator yields in order the segments of the
\* normalized text between its newline characters (m newlines, m + 1
\* segments, empty ones included, spaces and tabs kept), and once the last
\* segment is out the sequence is exhausted for good.
C9_SegmentsOfLiteralText ==
    [][/\ dispatch'[TG] = "text"
          => IsPrefix(yielded', Segments(Normalized(text_or_file.val)))
       /\ (gen = "suspended" /\ dispatch[TG] = "text" /\ last_pull' = "StopIteration")
          => /\ yielded = Segments(Normalized(text_or_file.val))
             /\ Len(yielded) = Cardinality(NewlinePlaces(text_or_file.val)) + 1
       /\ gen = "done" => (gen' = "done" /\ yielded' = yielded)]_vars

\* a text with two consecutive newlines and a space was pulled to exhaustion
C9_Witness ==
    /\ dispatch[TG] = "text"
    /\ gen = "done"
    /\ last_pull = "StopIteration"
    /\ Len(yielded) = 3
    /\ yielded[2] = <<>>
    /\ \E i \in 1..Len(yielded[1]) : yielded[1][i] = 32
    /\ text_or_file.val # Normalized(text_or_file.val)

----------------------------------------------------------------------------
(* C10 *)

\* C10: on a file, the list word_co_occurrence_matrix returns is the
\* concatenation, in line order, of the lists the lines yield on their own;
\* every tuple is a run of consecutive words of one line, and a line with
\* fewer words than the window contributes nothing.
C10_TuplesStayWithinALine ==
    (outcome[CO] = "returned" /\ dispatch[CO] = "file")
    => LET rows == file_rows(content)
           own(r) == process_co_occurance(<<>>, rows[r], window)
       IN /\ co_words_list = concat([r \in 1..Len(rows) |-> own(r)])
          /\ \A t \in {co_words_list[i] : i \in 1..Len(co_words_list)} :
                \E r \in 1..Len(rows) :
                   /\ \E i \in 1..(Len(WordsOf(rows[r])) + 1), j \in 0..Len(WordsOf(rows[r])) :
                         t = SubSeq(WordsOf(rows[r]), i, j)
                   /\ window >= 1 => Len(t) = window
          /\ \A r \in 1..Len(rows) : Len(WordsOf(rows[r])) < window => own(r) = <<>>

\* a file of two lines, each of which contributes a tuple
C10_Witness ==
    /\ outcome[CO] = "returned"
    /\ dispatch[CO] = "file"
    /\ window = 1
    /\ Len(file_rows(content)) = 2
    /\ \A r \in 1..2 : process_co_occurance(<<>>, file_rows(content)[r], window) # <<>>
    /\ Len(co_words_list) = 2

====
